---- MODULE Spec2Model ----
(***************************************************************************)
(* Model of CircularBuff<T> (src/circularBuffer/C++/cBuff.hpp) with T=int. *)
(* A buffer object is the record [m_buf, m_head, m_tail, m_maxSize,        *)
(* m_full]; C arrays are functions on 0..len-1.  The member functions are  *)
(* operators on that record, split at the individual stores so that the    *)
(* threaded specification can interleave them.                             *)
(***************************************************************************)
EXTENDS Integers, Sequences, FiniteSets, TLC

\* ---------------------------------------------------------------- bounds
MaxCap == 2
MaxVal == 1
\* longest write of the sequential specification
MaxWrite == 2

\* value-initialised T, returned by get() on an empty buffer
T0 == 0

Values == 0..MaxVal
Caps == 1..MaxCap
\* longest bulk transfer: one more than the largest capacity
MaxN == MaxCap + 1
\* the caller's destination array is one slot longer than the longest read
DestLen == MaxN + 1

\* most items the threads put, one token each
MaxItems == 3
\* longest bulk transfer of a thread
MaxBulk == 2

\* the object's fields; the ghosts of the sequential specifications (q, op,
\* prev, fault); the threads (pc, loc, done), the holder of m_mutex, and the
\* ghosts of the threaded specifications (quiet, nextItem, consumed, writes)
VARIABLES m_buf, m_head, m_tail, m_maxSize, m_full,
          q, op, prev, fault,
          m_mutex, pc, loc, done, quiet, nextItem, consumed, writes

svars == <<q, op, prev, fault>>

cvars == <<m_mutex, pc, loc, done, quiet, nextItem, consumed, writes>>

fields == <<m_buf, m_head, m_tail, m_maxSize, m_full>>

vars == <<m_buf, m_head, m_tail, m_maxSize, m_full, q, op, prev, fault,
          m_mutex, pc, loc, done, quiet, nextItem, consumed>>

\* the object as one record
this == [m_buf |-> m_buf, m_head |-> m_head, m_tail |-> m_tail,
         m_maxSize |-> m_maxSize, m_full |-> m_full]

\* ------------------------------------------------------------ queries
empty_never(b) == FALSE

empty(b) == (TRUE # b.m_full) /\ (b.m_head = b.m_tail)

full(b) == b.m_full

capacity(b) == b.m_maxSize

size_nowrap(b) == IF TRUE # b.m_full THEN b.m_head - b.m_tail ELSE b.m_maxSize

size(b) ==
  IF TRUE # b.m_full
  THEN IF b.m_head >= b.m_tail
       THEN b.m_head - b.m_tail
       ELSE b.m_maxSize + b.m_head - b.m_tail
  ELSE b.m_maxSize

\* ------------------------------------------------------------ reset
reset_head(b) == [b EXCEPT !.m_head = b.m_tail]

reset_full_kept(b) == b

reset_full(b) == [b EXCEPT !.m_full = FALSE]

reset(b) == reset_full(reset_head(b))

\* ------------------------------------------------------------ put
put_store(b, item) == [b EXCEPT !.m_buf[b.m_head] = item]

put_tail_noadvance(b) == b

put_tail(b) ==
  IF b.m_full THEN [b EXCEPT !.m_tail = (b.m_tail + 1) % b.m_maxSize] ELSE b

put_head_stuck(b) == b

put_head_nomod(b) == [b EXCEPT !.m_head = b.m_head + 1]

put_head(b) == [b EXCEPT !.m_head = (b.m_head + 1) % b.m_maxSize]

put_full_never(b) == [b EXCEPT !.m_full = FALSE]

put_full_always(b) == [b EXCEPT !.m_full = TRUE]

put_full(b) == [b EXCEPT !.m_full = (b.m_head = b.m_tail)]

put(b, item) == put_full(put_head(put_tail(put_store(b, item))))

\* ------------------------------------------------------------ get
\* result: the object after the call, the returned value, and whether the
\* call took the path past the empty() check
get_val_head(b) == b.m_buf[b.m_head]

get_val(b) == b.m_buf[b.m_tail]

get_full_kept(b) == b

get_full(b) == [b EXCEPT !.m_full = FALSE]

get_tail_stuck(b) == b

get_tail(b) == [b EXCEPT !.m_tail = (b.m_tail + 1) % b.m_maxSize]

get_unchecked(b) ==
  [b |-> get_tail(get_full(b)), val |-> get_val(b), popped |-> TRUE]

get(b) ==
  IF TRUE = empty(b)
  THEN [b |-> b, val |-> T0, popped |-> FALSE]
  ELSE [b |-> get_tail(get_full(b)), val |-> get_val(b), popped |-> TRUE]

\* ------------------------------------------------------------ write
RECURSIVE write_loop(_, _, _, _)
write_item_backwards(buff, n, i) == buff[n - 1 - i]

\* the argument of the i-th put of write
write_item(buff, n, i) == buff[i]

write_loop(b, buff, n, i) ==
  IF i < n THEN write_loop(put(b, write_item(buff, n, i)), buff, n, i + 1)
  ELSE b

write(b, buff, n) == write_loop(b, buff, n, 0)

\* ------------------------------------------------------------ read
RECURSIVE read_loop(_, _, _, _)
read_loop(b, buff, n, i) ==
  IF i < n
  THEN IF TRUE = empty(b)
       THEN [b |-> b, buff |-> buff, ret |-> i]
       ELSE LET g == get(b)
            IN read_loop(g.b, [buff EXCEPT ![i] = g.val], n, i + 1)
  ELSE [b |-> b, buff |-> buff, ret |-> i]

read_offbyone(b, buff, n) == read_loop(b, buff, n + 1, 0)

read_zerofill(b, buff, n) ==
  LET r == read_loop(b, buff, n, 0)
  IN [r EXCEPT !.buff = [i \in DOMAIN buff |->
                           IF r.ret <= i /\ i < n THEN T0 ELSE r.buff[i]]]

read(b, buff, n) == read_loop(b, buff, n, 0)

\* ------------------------------------------------- abstract bounded queue
\* FIFO with drop-oldest, the reference the buffer is compared against
q_put(s, c, x) == IF Len(s) >= c THEN Tail(s) \o <<x>> ELSE s \o <<x>>

q_get(s) == IF s = <<>> THEN s ELSE Tail(s)

RECURSIVE q_write(_, _, _, _, _)
q_write(s, c, buff, n, i) ==
  IF i < n THEN q_write(q_put(s, c, buff[i]), c, buff, n, i + 1) ELSE s

RECURSIVE q_read(_, _)
q_read(s, n) == IF n = 0 \/ s = <<>> THEN s ELSE q_read(Tail(s), n - 1)

\* the slots between tail and head, oldest first
elements(b) ==
  [k \in 1..size(b) |-> b.m_buf[(b.m_tail + k - 1) % b.m_maxSize]]

\* the values returned by n successive get() calls
RECURSIVE drain(_, _)
drain(b, n) ==
  IF n = 0 THEN <<>> ELSE LET g == get(b) IN <<g.val>> \o drain(g.b, n - 1)

\* ------------------------------------------------------- call records
NoBuf == [m_buf |-> <<>>, m_head |-> 0, m_tail |-> 0, m_maxSize |-> 0,
          m_full |-> FALSE]

NoArr == <<>>

NoOp == [name |-> "none", item |-> T0, n |-> 0, items |-> NoArr, ret |-> 0,
         popped |-> FALSE, pre |-> NoBuf, dest0 |-> NoArr, dest |-> NoArr,
         q0 |-> <<>>]

\* arrays of length n
Arrays(n) == [0..(n - 1) -> Values]

\* destination arrays as the caller hands them in
DestArrays == {[i \in 0..(DestLen - 1) |-> v] : v \in Values}

SetThis(b) ==
  /\ m_buf' = b.m_buf
  /\ m_head' = b.m_head
  /\ m_tail' = b.m_tail
  /\ m_maxSize' = b.m_maxSize
  /\ m_full' = b.m_full

\* ------------------------------------------------------- construction
Constructed_full(c) ==
  /\ m_maxSize = c
  /\ m_buf \in [0..(c - 1) -> Values]
  /\ m_head = 0
  /\ m_tail = 0
  /\ m_full = TRUE

\* CircularBuff(size): new T[size] leaves the ints indeterminate
Constructed(c) ==
  /\ m_maxSize = c
  /\ m_buf \in [0..(c - 1) -> Values]
  /\ m_head = 0
  /\ m_tail = 0
  /\ m_full = FALSE

\* a program that uses the object from one thread only
NoThreads ==
  /\ m_mutex = "free"
  /\ pc = <<>>
  /\ loc = <<>>
  /\ done = <<>>
  /\ quiet = <<>>
  /\ nextItem = 1
  /\ consumed = <<>>
  /\ writes = <<>>

Init ==
  /\ \E c \in Caps : Constructed(c)
  /\ NoThreads
  /\ q = <<>>
  /\ op = NoOp
  /\ prev = "none"
  /\ fault = "none"

\* ------------------------------------------------------- sequential calls
\* each call runs to completion; op records the call, its arguments, its
\* result and the object before it
PutCall(x) ==
  /\ m_maxSize # 0
  /\ SetThis(put(this, x))
  /\ q' = q_put(q, m_maxSize, x)
  /\ op' = [NoOp EXCEPT !.name = "put", !.item = x, !.pre = this, !.q0 = q]
  /\ UNCHANGED <<fault, cvars>>

GetCall ==
  /\ LET g == get(this)
     IN /\ SetThis(g.b)
        /\ op' = [NoOp EXCEPT !.name = "get", !.ret = g.val,
                              !.popped = g.popped, !.pre = this, !.q0 = q]
  /\ q' = q_get(q)
  /\ UNCHANGED <<fault, cvars>>

ResetCall ==
  /\ SetThis(reset(this))
  /\ q' = <<>>
  /\ op' = [NoOp EXCEPT !.name = "reset", !.pre = this, !.q0 = q]
  /\ UNCHANGED <<fault, cvars>>

WriteCall(n, buff) ==
  /\ m_maxSize # 0 \/ n = 0
  /\ SetThis(write(this, buff, n))
  /\ q' = q_write(q, m_maxSize, buff, n, 0)
  /\ op' = [NoOp EXCEPT !.name = "write", !.n = n, !.items = buff,
                        !.pre = this, !.q0 = q]
  /\ UNCHANGED <<fault, cvars>>

ReadCall(n, buff) ==
  /\ LET r == read(this, buff, n)
     IN /\ SetThis(r.b)
        /\ op' = [NoOp EXCEPT !.name = "read", !.n = n, !.ret = r.ret,
                              !.pre = this, !.dest0 = buff, !.dest = r.buff,
                              !.q0 = q]
  /\ q' = q_read(q, n)
  /\ UNCHANGED <<fault, cvars>>

Put(x) == PutCall(x) /\ UNCHANGED prev

Get == GetCall /\ UNCHANGED prev

Reset == ResetCall /\ UNCHANGED prev

Write(n, buff) == WriteCall(n, buff) /\ UNCHANGED prev

Read(n, buff) == ReadCall(n, buff) /\ UNCHANGED prev

Next ==
  \/ \E x \in Values : Put(x)
  \/ Get
  \/ Reset
  \/ \E n \in 0..MaxWrite : \E buff \in Arrays(n) : Write(n, buff)
  \/ \E n \in 0..MaxN : \E buff \in DestArrays : Read(n, buff)

Spec == Init /\ [][Next]_vars

\* ------------------------------------------- write then read, from empty
\* an empty buffer at any cursor position, as puts and gets leave it
EmptyAt(c, k) ==
  /\ m_maxSize = c
  /\ m_buf \in [0..(c - 1) -> Values]
  /\ m_head = k
  /\ m_tail = k
  /\ m_full = FALSE

InitWR ==
  /\ \E c \in Caps : \E k \in 0..(c - 1) : EmptyAt(c, k)
  /\ NoThreads
  /\ q = <<>>
  /\ op = NoOp
  /\ prev = NoOp
  /\ fault = "none"

WriteFirst(n, buff) ==
  /\ op.name = "none"
  /\ WriteCall(n, buff)
  /\ prev' = op

ReadBack(buff) ==
  /\ op.name = "write"
  /\ ReadCall(capacity(this), buff)
  /\ prev' = op

NextWR ==
  \/ \E n \in 0..MaxN : \E buff \in Arrays(n) : WriteFirst(n, buff)
  \/ \E buff \in DestArrays : ReadBack(buff)

SpecWR == InitWR /\ [][NextWR]_vars

\* ------------------------------------------- single calls, two remembered
\* put, get and reset in any order; prev is the call before the last one
PutNext(x) == PutCall(x) /\ prev' = op

GetNext == GetCall /\ prev' = op

ResetNext == ResetCall /\ prev' = op

NextRT ==
  \/ \E x \in Values : PutNext(x)
  \/ GetNext
  \/ ResetNext

SpecRT == Init /\ [][NextRT]_vars

\* ------------------------------------------- construction with any size
InitCtor ==
  /\ \E c \in 0..MaxCap : Constructed(c)
  /\ NoThreads
  /\ q = <<>>
  /\ op = NoOp
  /\ prev = "none"
  /\ fault = "none"

\* put on a zero-capacity object: the store goes past the zero-length
\* allocation and (m_head + 1) % m_maxSize divides by zero.  The division
\* either traps or, where the hardware does not trap, leaves the dividend.
\* Nothing is modelled after the fault.
PutZero(x) ==
  /\ m_maxSize = 0
  /\ \E outcome \in {"SIGFPE", "mod_by_zero"} :
       /\ fault' = outcome
       /\ m_head' = IF outcome = "SIGFPE" THEN m_head ELSE m_head + 1
  /\ op' = [NoOp EXCEPT !.name = "put", !.item = x, !.pre = this, !.q0 = q]
  /\ UNCHANGED <<m_buf, m_tail, m_maxSize, m_full, q, prev, cvars>>

NextCtor ==
  \/ fault = "none" /\ Next
  \/ fault = "none" /\ \E x \in Values : PutZero(x)

SpecCtor == InitCtor /\ [][NextCtor]_vars

\* ------------------------------------------------------------ threads
\* Each thread is idle or inside one call.  m_mutex holds the thread that
\* owns the lock, or "free".  A member function that takes the lock is cut
\* at each store to a field that empty() reads without the lock; read() and
\* write() take no lock themselves.  Code that touches only the thread's own
\* locals runs in the same step as the access to the object before it.
Threads == {"t1", "t2"}

Producers == {"p1", "p2"}

Consumers == {"c1"}

Writers == {"w1"}

Putters == {"p1"}

\* what new T[size] holds before any put
Indeterminate == {-1, 0}

\* the caller's destination array before read() stores into it
FreshDest == [i \in 0..MaxBulk |-> -1]

NoLoc == [call |-> "none", item |-> T0, val |-> T0, popped |-> FALSE,
          n |-> 0, i |-> 0, buff |-> NoArr, seenHead |-> 0, size0 |-> 0,
          phantom |-> FALSE]

NoDone == [thread |-> "none", name |-> "none", ret |-> 0, popped |-> FALSE, n |-> 0,
           size0 |-> 0, quiet |-> TRUE, phantom |-> FALSE]

PutPcs == {"put_lock", "put_tail", "put_head", "put_full"}

\* the positions at which a thread owns m_mutex
LockedPcs == {"put_tail", "put_head", "put_full", "get_full", "get_tail",
              "reset_full"}

\* std::lock_guard: the constructor blocks until the mutex is free, the
\* destructor runs on every path out of the function
lock_guard_ctor_enabled(m) == m = "free"

lock_guard_dtor_leak(m) == m

lock_guard_dtor(m) == "free"

StartThreads(ts) ==
  /\ m_mutex = "free"
  /\ pc = [t \in ts |-> "idle"]
  /\ loc = [t \in ts |-> NoLoc]
  /\ done = NoDone
  /\ quiet = [t \in ts |-> TRUE]
  /\ nextItem = 1
  /\ consumed = <<>>
  /\ writes = <<>>

ConstructedShared(c) ==
  /\ m_maxSize = c
  /\ m_buf \in [0..(c - 1) -> Indeterminate]
  /\ m_head = 0
  /\ m_tail = 0
  /\ m_full = FALSE

\* a call returns: the thread is idle again; done holds the result in the
\* state the return leads to and is cleared by the step after it
Return(t, r) ==
  /\ pc' = [pc EXCEPT ![t] = "idle"]
  /\ loc' = [loc EXCEPT ![t] = NoLoc]
  /\ done' = [r EXCEPT !.thread = t]

\* ---- put
CallPut(t, x) ==
  /\ pc[t] = "idle"
  /\ pc' = [pc EXCEPT ![t] = "put_lock"]
  /\ loc' = [loc EXCEPT ![t] = [NoLoc EXCEPT !.call = "put", !.item = x]]
  /\ done' = NoDone
  /\ UNCHANGED <<fields, m_mutex>>

PutLock(t) ==
  /\ pc[t] = "put_lock"
  /\ lock_guard_ctor_enabled(m_mutex)
  /\ m_mutex' = t
  /\ SetThis(put_store(this, loc[t].item))
  /\ pc' = [pc EXCEPT ![t] = IF m_full THEN "put_tail" ELSE "put_head"]
  /\ UNCHANGED loc
  /\ done' = NoDone

PutTail(t) ==
  /\ pc[t] = "put_tail"
  /\ SetThis(put_tail(this))
  /\ pc' = [pc EXCEPT ![t] = "put_head"]
  /\ UNCHANGED <<m_mutex, loc>>
  /\ done' = NoDone

PutHead(t) ==
  /\ pc[t] = "put_head"
  /\ SetThis(put_head(this))
  /\ pc' = [pc EXCEPT ![t] = "put_full"]
  /\ UNCHANGED <<m_mutex, loc>>
  /\ done' = NoDone

\* the last store of put, the unlock and the return; inside write() the loop
\* goes on to the next element or write() returns
PutFull(t) ==
  /\ pc[t] = "put_full"
  /\ SetThis(put_full(this))
  /\ m_mutex' = lock_guard_dtor(m_mutex)
  /\ IF loc[t].call = "write"
     THEN IF loc[t].i + 1 < loc[t].n
          THEN /\ pc' = [pc EXCEPT ![t] = "put_lock"]
               /\ loc' = [loc EXCEPT ![t].i = @ + 1,
                                     ![t].item = write_item(loc[t].buff, loc[t].n,
                                                          loc[t].i + 1)]
               /\ done' = NoDone
          ELSE Return(t, [NoDone EXCEPT !.name = "write", !.n = loc[t].n])
     ELSE Return(t, [NoDone EXCEPT !.name = "put"])

\* ---- write
CallWrite(t, n, buff) ==
  /\ pc[t] = "idle"
  /\ IF 0 < n
     THEN /\ pc' = [pc EXCEPT ![t] = "put_lock"]
          /\ loc' = [loc EXCEPT ![t] =
                       [NoLoc EXCEPT !.call = "write", !.n = n, !.buff = buff,
                                     !.item = write_item(buff, n, 0)]]
          /\ done' = NoDone
     ELSE Return(t, [NoDone EXCEPT !.name = "write", !.n = n])
  /\ UNCHANGED <<fields, m_mutex>>

\* ---- get
CallGet(t) ==
  /\ pc[t] = "idle"
  /\ pc' = [pc EXCEPT ![t] = "get_lock"]
  /\ loc' = [loc EXCEPT ![t] = [NoLoc EXCEPT !.call = "get"]]
  /\ done' = NoDone
  /\ UNCHANGED <<fields, m_mutex>>

\* return val; inside read() the value goes to buff[i] and i is advanced
GetReturn(t, val, popped) ==
  IF loc[t].call = "read"
  THEN /\ pc' = [pc EXCEPT ![t] = "read_loop"]
       /\ loc' = [loc EXCEPT ![t].buff[loc[t].i] = val,
                             ![t].i = @ + 1,
                             ![t].val = T0,
                             ![t].popped = FALSE,
                             ![t].phantom = @ \/ ~popped]
       /\ done' = NoDone
  ELSE Return(t, [NoDone EXCEPT !.name = "get", !.ret = val,
                                 !.popped = popped])

\* the lock, the empty() check and, on an empty buffer, return T()
GetLock(t) ==
  /\ pc[t] = "get_lock"
  /\ lock_guard_ctor_enabled(m_mutex)
  /\ IF TRUE = empty(this)
     THEN /\ m_mutex' = lock_guard_dtor(t)
          /\ GetReturn(t, T0, FALSE)
     ELSE /\ m_mutex' = t
          /\ pc' = [pc EXCEPT ![t] = "get_full"]
          /\ loc' = [loc EXCEPT ![t].val = get_val(this), ![t].popped = TRUE]
          /\ done' = NoDone
  /\ UNCHANGED fields

GetFull(t) ==
  /\ pc[t] = "get_full"
  /\ SetThis(get_full(this))
  /\ pc' = [pc EXCEPT ![t] = "get_tail"]
  /\ UNCHANGED <<m_mutex, loc>>
  /\ done' = NoDone

\* the last store of get, the unlock and return val
GetTail(t) ==
  /\ pc[t] = "get_tail"
  /\ SetThis(get_tail(this))
  /\ m_mutex' = lock_guard_dtor(m_mutex)
  /\ GetReturn(t, loc[t].val, loc[t].popped)

\* ---- reset
CallReset(t) ==
  /\ pc[t] = "idle"
  /\ pc' = [pc EXCEPT ![t] = "reset_lock"]
  /\ loc' = [loc EXCEPT ![t] = [NoLoc EXCEPT !.call = "reset"]]
  /\ done' = NoDone
  /\ UNCHANGED <<fields, m_mutex>>

ResetLock(t) ==
  /\ pc[t] = "reset_lock"
  /\ lock_guard_ctor_enabled(m_mutex)
  /\ m_mutex' = t
  /\ SetThis(reset_head(this))
  /\ pc' = [pc EXCEPT ![t] = "reset_full"]
  /\ UNCHANGED loc
  /\ done' = NoDone

ResetFull(t) ==
  /\ pc[t] = "reset_full"
  /\ SetThis(reset_full(this))
  /\ m_mutex' = lock_guard_dtor(m_mutex)
  /\ Return(t, [NoDone EXCEPT !.name = "reset"])

\* ---- read
CallRead(t, n) ==
  /\ pc[t] = "idle"
  /\ pc' = [pc EXCEPT ![t] = "read_loop"]
  /\ loc' = [loc EXCEPT ![t] =
               [NoLoc EXCEPT !.call = "read", !.n = n, !.buff = FreshDest,
                             !.size0 = size(this)]]
  /\ done' = NoDone
  /\ UNCHANGED <<fields, m_mutex>>

ReadResult(t) ==
  [NoDone EXCEPT !.name = "read", !.ret = loc[t].i, !.n = loc[t].n,
                 !.size0 = loc[t].size0, !.quiet = quiet[t],
                 !.phantom = loc[t].phantom]

\* the loop test and empty()'s read of m_full, without the lock
ReadLoop(t) ==
  /\ pc[t] = "read_loop"
  /\ IF loc[t].i < loc[t].n
     THEN /\ pc' = [pc EXCEPT ![t] =
                      IF TRUE # m_full THEN "empty_head" ELSE "get_lock"]
          /\ UNCHANGED loc
          /\ done' = NoDone
     ELSE Return(t, ReadResult(t))
  /\ UNCHANGED <<fields, m_mutex>>

\* empty()'s read of m_head
EmptyHead(t) ==
  /\ pc[t] = "empty_head"
  /\ pc' = [pc EXCEPT ![t] = "empty_tail"]
  /\ loc' = [loc EXCEPT ![t].seenHead = m_head]
  /\ UNCHANGED <<fields, m_mutex>>
  /\ done' = NoDone

\* empty()'s read of m_tail and its result
EmptyTail(t) ==
  /\ pc[t] = "empty_tail"
  /\ IF TRUE = empty([m_full |-> FALSE, m_head |-> loc[t].seenHead,
                      m_tail |-> m_tail])
     THEN Return(t, ReadResult(t))
     ELSE /\ pc' = [pc EXCEPT ![t] = "get_lock"]
          /\ loc' = [loc EXCEPT ![t].seenHead = 0]
          /\ done' = NoDone
  /\ UNCHANGED <<fields, m_mutex>>

\* ---- ghosts of the threaded specifications
OthersOutsidePut(u, p) == \A v \in DOMAIN p : v = u \/ p[v] \notin PutPcs

OthersOutsideGet(u, p) ==
  \A v \in DOMAIN p : v = u \/ p[v] # "get_tail"

\* quiet[u], while u is inside read(): no other thread was between the
\* stores of get when read() was called, and none has been inside put at
\* the call or since
Track ==
  quiet' = [u \in DOMAIN pc |->
              IF loc'[u].call # "read" THEN TRUE
              ELSE IF loc[u].call # "read"
                   THEN OthersOutsideGet(u, pc) /\ OthersOutsidePut(u, pc')
                   ELSE quiet[u] /\ OthersOutsidePut(u, pc')]

\* the values read() has stored into the consumer's array, in order
Consume(t) ==
  consumed' = IF loc[t].call = "read" /\ loc'[t].i > loc[t].i
              THEN Append(consumed, loc'[t].buff[loc[t].i])
              ELSE consumed

\* ---- any thread may make any call
InitConc ==
  /\ \E c \in Caps : ConstructedShared(c)
  /\ StartThreads(Threads)
  /\ q = <<>>
  /\ op = NoOp
  /\ prev = "none"
  /\ fault = "none"

\* the items put here all carry one value: no branch of the code reads an item
Marks == {1}

GhostConc == Track /\ UNCHANGED <<nextItem, consumed, writes, svars>>

NextConc ==
  \E t \in Threads :
    \/ (\E x \in Marks : CallPut(t, x)) /\ GhostConc
    \/ PutLock(t) /\ GhostConc
    \/ PutTail(t) /\ GhostConc
    \/ PutHead(t) /\ GhostConc
    \/ PutFull(t) /\ GhostConc
    \/ (\E n \in 0..MaxBulk : \E x \in Marks :
          CallWrite(t, n, [i \in 0..(n - 1) |-> x])) /\ GhostConc
    \/ CallGet(t) /\ GhostConc
    \/ GetLock(t) /\ GhostConc
    \/ GetFull(t) /\ GhostConc
    \/ GetTail(t) /\ GhostConc
    \/ CallReset(t) /\ GhostConc
    \/ ResetLock(t) /\ GhostConc
    \/ ResetFull(t) /\ GhostConc
    \/ (\E n \in 0..MaxBulk : CallRead(t, n)) /\ GhostConc
    \/ ReadLoop(t) /\ GhostConc
    \/ EmptyHead(t) /\ GhostConc
    \/ EmptyTail(t) /\ GhostConc

SpecConc == InitConc /\ [][NextConc]_vars

\* ---- fair scheduling
\* the steps of a call that wait for nothing: every step but the lock_guard
\* constructors
Run(t) ==
  \/ PutTail(t) /\ GhostConc
  \/ PutHead(t) /\ GhostConc
  \/ PutFull(t) /\ GhostConc
  \/ GetFull(t) /\ GhostConc
  \/ GetTail(t) /\ GhostConc
  \/ ResetFull(t) /\ GhostConc
  \/ ReadLoop(t) /\ GhostConc
  \/ EmptyHead(t) /\ GhostConc
  \/ EmptyTail(t) /\ GhostConc

\* std::lock_guard's constructor in put, get and reset
Acquire(t) ==
  \/ PutLock(t) /\ GhostConc
  \/ GetLock(t) /\ GhostConc
  \/ ResetLock(t) /\ GhostConc

\* a thread inside a call keeps being scheduled, and a thread waiting for
\* m_mutex gets it if it is free again and again; a thread need not call
Fairness ==
  \A t \in Threads : WF_vars(Run(t)) /\ SF_vars(Acquire(t))

SpecFair == InitConc /\ [][NextConc]_vars /\ Fairness

\* ---- producers that put, one consumer that reads
InitPC ==
  /\ \E c \in Caps : ConstructedShared(c)
  /\ StartThreads(Producers \cup Consumers)
  /\ q = <<>>
  /\ op = NoOp
  /\ prev = "none"
  /\ fault = "none"

GhostProducer == Track /\ UNCHANGED <<consumed, writes, svars>>

GhostConsumer(t) ==
  Track /\ Consume(t) /\ UNCHANGED <<nextItem, writes, svars>>

\* every put carries a fresh item, so that a value names the put it is from
CallPutFresh(t) ==
  /\ nextItem <= MaxItems
  /\ CallPut(t, nextItem)
  /\ nextItem' = nextItem + 1

NextPC ==
  \/ \E t \in Producers :
       \/ CallPutFresh(t) /\ GhostProducer
       \/ PutLock(t) /\ GhostProducer /\ UNCHANGED nextItem
       \/ PutTail(t) /\ GhostProducer /\ UNCHANGED nextItem
       \/ PutHead(t) /\ GhostProducer /\ UNCHANGED nextItem
       \/ PutFull(t) /\ GhostProducer /\ UNCHANGED nextItem
  \/ \E t \in Consumers :
       \/ (\E n \in 1..MaxBulk : CallRead(t, n)) /\ GhostConsumer(t)
       \/ ReadLoop(t) /\ GhostConsumer(t)
       \/ EmptyHead(t) /\ GhostConsumer(t)
       \/ EmptyTail(t) /\ GhostConsumer(t)
       \/ GetLock(t) /\ GhostConsumer(t)
       \/ GetFull(t) /\ GhostConsumer(t)
       \/ GetTail(t) /\ GhostConsumer(t)

SpecPC == InitPC /\ [][NextPC]_vars

\* ---- a thread that writes, a thread that puts, one consumer that reads
InitWO ==
  /\ \E c \in Caps : ConstructedShared(c)
  /\ StartThreads(Writers \cup Putters \cup Consumers)
  /\ q = <<>>
  /\ op = NoOp
  /\ prev = "none"
  /\ fault = "none"

GhostWriter == Track /\ UNCHANGED <<consumed, svars>>

\* write(items, n) with n fresh items; writes remembers the array of each call
CallWriteFresh(t, n) ==
  LET items == [i \in 0..(n - 1) |-> nextItem + i]
  IN /\ nextItem + n - 1 <= MaxItems
     /\ CallWrite(t, n, items)
     /\ nextItem' = nextItem + n
     /\ writes' = Append(writes, items)

NextWO ==
  \/ \E t \in Writers :
       \/ (\E n \in 1..MaxBulk : CallWriteFresh(t, n)) /\ GhostWriter
       \/ PutLock(t) /\ GhostProducer /\ UNCHANGED nextItem
       \/ PutTail(t) /\ GhostProducer /\ UNCHANGED nextItem
       \/ PutHead(t) /\ GhostProducer /\ UNCHANGED nextItem
       \/ PutFull(t) /\ GhostProducer /\ UNCHANGED nextItem
  \/ \E t \in Putters :
       \/ CallPutFresh(t) /\ GhostProducer
       \/ PutLock(t) /\ GhostProducer /\ UNCHANGED nextItem
       \/ PutTail(t) /\ GhostProducer /\ UNCHANGED nextItem
       \/ PutHead(t) /\ GhostProducer /\ UNCHANGED nextItem
       \/ PutFull(t) /\ GhostProducer /\ UNCHANGED nextItem
  \/ \E t \in Consumers :
       \/ (\E n \in 1..MaxBulk : CallRead(t, n)) /\ GhostConsumer(t)
       \/ ReadLoop(t) /\ GhostConsumer(t)
       \/ EmptyHead(t) /\ GhostConsumer(t)
       \/ EmptyTail(t) /\ GhostConsumer(t)
       \/ GetLock(t) /\ GhostConsumer(t)
       \/ GetFull(t) /\ GhostConsumer(t)
       \/ GetTail(t) /\ GhostConsumer(t)

SpecWO == InitWO /\ [][NextWO]_vars

\* ------------------------------------------------------------ properties
Min(a, b) == IF a <= b THEN a ELSE b

\* C1: put on a full buffer succeeds, leaves it full with size == capacity,
\* and the next capacity get() calls return the former elements without the
\* oldest, followed by the new item.
C1_OverwriteOnFull ==
  (op.name = "put" /\ full(op.pre)) =>
    LET c == capacity(op.pre)
        e == elements(op.pre)
    IN /\ full(this)
       /\ size(this) = c
       /\ Len(e) = c
       /\ drain(this, c) = Tail(e) \o <<op.item>>

C1_Witness ==
  /\ op.name = "put"
  /\ full(op.pre)
  /\ capacity(op.pre) >= 2
  /\ op.item # elements(op.pre)[1]
  /\ elements(op.pre)[1] # elements(op.pre)[2]

\* C2: the buffer refines the bounded drop-oldest queue q: size() is the
\* length of q in every state, and a get() on a non-empty buffer returns
\* the first element of q.
C2_FifoRefinement ==
  /\ size(this) = Len(q)
  /\ (op.name = "get" /\ ~empty(op.pre)) =>
       /\ op.q0 # <<>>
       /\ op.popped
       /\ op.ret = Head(op.q0)
       /\ q = Tail(op.q0)

C2_Witness ==
  /\ op.name = "get"
  /\ ~empty(op.pre)
  /\ Len(op.q0) >= 2
  /\ op.q0[1] # op.q0[2]
  /\ op.pre.m_tail # 0

\* C4: get() on an empty buffer returns T() and changes neither the
\* cursors, the full flag nor any slot.
C4_GetOnEmpty ==
  (op.name = "get" /\ empty(op.pre)) =>
    /\ op.ret = T0
    /\ ~op.popped
    /\ this = op.pre

C4_Witness ==
  /\ op.name = "get"
  /\ empty(op.pre)
  /\ op.pre.m_tail # 0
  /\ op.pre.m_buf[op.pre.m_tail] # T0

\* C8: run alone, read(dest, n) on a buffer of s elements returns
\* min(n, s), stores the min(n, s) oldest elements in order in
\* dest[0..min(n,s)-1], writes no slot at index n or beyond, and empties
\* the buffer when n >= s.
C8_ReadSequential ==
  (op.name = "read") =>
    LET s == size(op.pre)
        m == Min(op.n, s)
        e == elements(op.pre)
    IN /\ op.ret = m
       /\ \A i \in 0..(m - 1) : op.dest[i] = e[i + 1]
       /\ \A i \in op.n..(DestLen - 1) : op.dest[i] = op.dest0[i]
       /\ (op.n >= s) => empty(this)
       /\ size(this) = s - m

C8_Witness ==
  /\ op.name = "read"
  /\ size(op.pre) >= 2
  /\ op.n > size(op.pre)
  /\ op.dest[0] # op.dest[1]
  /\ op.pre.m_tail # 0

\* C9: write(items, n) into an empty buffer followed by read(dest, c)
\* returns min(n, c) and dest holds the last min(n, c) items in order.
C9_WriteThenRead ==
  (op.name = "read" /\ op.n = capacity(this)
     /\ prev.name = "write" /\ empty(prev.pre)) =>
    LET n == prev.n
        m == Min(n, capacity(this))
    IN /\ op.ret = m
       /\ \A i \in 0..(m - 1) : op.dest[i] = prev.items[n - m + i]

C9_Witness ==
  /\ op.name = "read"
  /\ prev.name = "write"
  /\ prev.n > capacity(this)
  /\ capacity(this) >= 2
  /\ prev.pre.m_head # 0
  /\ prev.items[0] # prev.items[prev.n - 1]
  /\ op.dest[0] # op.dest[1]

\* C10: reset() leaves the buffer empty, not full, of size 0, with the same
\* capacity; the get() that follows takes the empty path and returns T();
\* what later get() calls return is exactly the values put since the
\* reset, in order.
C10_Reset ==
  /\ (op.name = "reset") =>
       /\ empty(this)
       /\ ~full(this)
       /\ size(this) = 0
       /\ capacity(this) = capacity(op.pre)
       /\ ~get(this).popped
       /\ get(this).val = T0
       /\ get(this).b = this
  /\ drain(this, size(this)) = q

C10_Witness ==
  /\ op.name = "reset"
  /\ full(op.pre)
  /\ m_buf[m_tail] # T0
  /\ m_tail # 0

\* the items handed to put so far, and those among them not yet stored
Issued == 1..(nextItem - 1)

Pending ==
  UNION {IF loc[t].call = "put"
         THEN IF pc[t] = "put_lock" THEN {loc[t].item} ELSE {}
         ELSE IF loc[t].call = "write"
         THEN {loc[t].buff[j] :
                 j \in {k \in 0..(loc[t].n - 1) :
                          k > loc[t].i \/ (k = loc[t].i /\ pc[t] = "put_lock")}}
         ELSE {} : t \in DOMAIN pc}

\* C5: with several threads in put and one thread in read, every value the
\* reader has retrieved is an item some put has stored, no item is
\* retrieved twice, and size() stays within 0..capacity().
C5_ProducersConsumer ==
  /\ \A i \in 1..Len(consumed) : consumed[i] \in Issued \ Pending
  /\ \A i, j \in 1..Len(consumed) : i # j => consumed[i] # consumed[j]
  /\ 0 <= size(this)
  /\ size(this) <= capacity(this)

C5_Witness ==
  /\ Len(consumed) >= 2
  /\ consumed[1] > consumed[2]
  /\ \E t \in Producers : pc[t] \in LockedPcs

\* C6: at most one thread is inside the locked part of put, get or reset,
\* that thread owns m_mutex, and a thread that has returned does not.
C6_MutualExclusion ==
  /\ \A t, u \in DOMAIN pc :
       (pc[t] \in LockedPcs /\ pc[u] \in LockedPcs) => t = u
  /\ \A t \in DOMAIN pc : pc[t] \in LockedPcs => m_mutex = t
  /\ \A t \in DOMAIN pc : pc[t] = "idle" => m_mutex # t
  /\ done.name \in {"put", "get", "reset"} => m_mutex # done.thread

C6_Witness ==
  /\ done.name = "get"
  /\ ~done.popped
  /\ \E u \in DOMAIN pc : u # done.thread /\ pc[u] = "put_lock"

\* C7 as claimed: read returns at most min(n, size() when it was called),
\* whatever other threads do during the call.
C7_ReadCountAnyInterleaving ==
  (done.name = "read") =>
    /\ 0 <= done.ret
    /\ done.ret <= Min(done.n, done.size0)

\* C7 as amended: read returns between 0 and n; it returns at most
\* min(n, size() when it was called) if no other thread was between the
\* stores of get at the call and none has been inside put during the call.
C7_ReadCount ==
  (done.name = "read") =>
    /\ 0 <= done.ret
    /\ done.ret <= done.n
    /\ done.quiet => done.ret <= Min(done.n, done.size0)

C7_Witness ==
  /\ done.name = "read"
  /\ done.quiet
  /\ done.phantom
  /\ done.size0 >= 2

\* C11: put(x) on an empty buffer followed at once by get() returns x and
\* leaves the buffer empty with size 0, wherever head == tail lies.
C11_RoundTrip ==
  (op.name = "get" /\ prev.name = "put" /\ empty(prev.pre)) =>
    /\ op.popped
    /\ op.ret = prev.item
    /\ empty(this)
    /\ size(this) = 0

C11_Witness ==
  /\ op.name = "get"
  /\ prev.name = "put"
  /\ empty(prev.pre)
  /\ prev.pre.m_head # 0
  /\ prev.item # T0
  /\ prev.pre.m_buf[prev.pre.m_head] # prev.item

\* C13: size() is capacity when the full flag is set and otherwise
\* (head - tail) mod capacity; it lies in 0..capacity(); no call changes the
\* capacity.
C13_Size ==
  /\ size(this) = IF m_full THEN m_maxSize
                  ELSE (m_head - m_tail) % m_maxSize
  /\ 0 <= size(this)
  /\ size(this) <= capacity(this)
  /\ (op.name # "none") => capacity(this) = capacity(op.pre)

C13_Witness ==
  /\ op.name # "none"
  /\ ~m_full
  /\ m_head < m_tail
  /\ size(this) = m_maxSize - 1

\* C14: a newly constructed buffer has head == tail == 0 and the full flag
\* clear: it is empty, not full, of size 0, and its capacity is the number
\* of slots allocated.
C14_Constructed ==
  (op.name = "none") =>
    /\ m_head = 0
    /\ m_tail = 0
    /\ ~m_full
    /\ empty(this)
    /\ ~full(this)
    /\ size(this) = 0
    /\ capacity(this) \in Caps
    /\ DOMAIN m_buf = 0..(capacity(this) - 1)

C14_Witness ==
  /\ op.name = "none"
  /\ capacity(this) >= 2
  /\ m_buf[0] # T0

\* the three logical states, by size()
Class(b) ==
  IF size(b) = 0 THEN "Empty"
  ELSE IF size(b) = capacity(b) THEN "Full" ELSE "Partial"

\* C15 as claimed: for every capacity, put only moves Empty->Partial,
\* Partial->Partial, Partial->Full, Full->Full; get only Full->Partial,
\* Partial->Partial, Partial->Empty, Empty->Empty; reset leads to Empty.
C15_TransitionsAnyCapacity ==
  LET tr == <<Class(op.pre), Class(this)>>
  IN /\ (op.name = "put") =>
          tr \in {<<"Empty", "Partial">>, <<"Partial", "Partial">>,
                  <<"Partial", "Full">>, <<"Full", "Full">>}
     /\ (op.name = "get") =>
          tr \in {<<"Full", "Partial">>, <<"Partial", "Partial">>,
                  <<"Partial", "Empty">>, <<"Empty", "Empty">>}
     /\ (op.name = "reset") => Class(this) = "Empty"

\* C15 as amended: the transitions above hold for capacity >= 2; a buffer
\* of capacity 1 has no Partial state: put moves Empty->Full and
\* Full->Full, get moves Full->Empty and leaves Empty as Empty.
C15_Transitions ==
  LET tr == <<Class(op.pre), Class(this)>>
      c == capacity(this)
  IN /\ (op.name = "put" /\ c >= 2) =>
          tr \in {<<"Empty", "Partial">>, <<"Partial", "Partial">>,
                  <<"Partial", "Full">>, <<"Full", "Full">>}
     /\ (op.name = "put" /\ c = 1) =>
          tr \in {<<"Empty", "Full">>, <<"Full", "Full">>}
     /\ (op.name = "get" /\ c >= 2) =>
          tr \in {<<"Full", "Partial">>, <<"Partial", "Partial">>,
                  <<"Partial", "Empty">>, <<"Empty", "Empty">>}
     /\ (op.name = "get" /\ c = 1) =>
          tr \in {<<"Full", "Empty">>, <<"Empty", "Empty">>}
     /\ (op.name = "reset") => Class(this) = "Empty"

C15_Witness ==
  /\ op.name = "put"
  /\ capacity(this) = 1
  /\ Class(op.pre) = "Empty"
  /\ Class(this) = "Full"

\* C18: read(dest, n) that returns r leaves every slot dest[i], i >= r, as
\* the caller handed it in, also when the buffer was empty at the call.
C18_ReadFrame ==
  (op.name = "read") =>
    \A i \in DOMAIN op.dest0 : i >= op.ret => op.dest[i] = op.dest0[i]

C18_Witness ==
  /\ op.name = "read"
  /\ op.ret >= 1
  /\ op.ret < op.n
  /\ op.dest[0] # op.dest0[0]
  /\ op.dest0[0] # T0

C16_CursorRange ==
  /\ m_maxSize >= 1
  /\ m_head \in 0..(m_maxSize - 1)
  /\ m_tail \in 0..(m_maxSize - 1)
  /\ DOMAIN m_buf = 0..(m_maxSize - 1)

C16_Witness ==
  \E t \in Threads : \E u \in Threads \ {t} :
    /\ pc[t] = "put_full"
    /\ m_head = 0
    /\ m_maxSize >= 2
    /\ loc[u].call = "read"
    /\ loc[u].i >= 1

\* C19: every value a read call stored into dest and counted is an element
\* that call removed from the buffer, never the T() of a get that found the
\* buffer empty, whatever other threads do between empty() and get().
C19_ReadOnlyRemoved == (done.name = "read") => ~done.phantom

\* C17: while write(items, n) runs beside another thread's puts, any two
\* items of that write that the single consumer both retrieves are retrieved
\* in their order in items.
C17_WriteOrder ==
  \A k \in DOMAIN writes :
    \A a, b \in DOMAIN writes[k] :
      \A i, j \in DOMAIN consumed :
        (a < b /\ consumed[i] = writes[k][a] /\ consumed[j] = writes[k][b])
          => i < j

\* two items of one write retrieved with another thread's item between them
C17_Witness ==
  \E k \in DOMAIN writes :
    \E a, b \in DOMAIN writes[k] :
      \E i, m, j \in DOMAIN consumed :
        /\ a < b
        /\ i < m
        /\ m < j
        /\ consumed[i] = writes[k][a]
        /\ consumed[j] = writes[k][b]
        /\ consumed[m] >= 1
        /\ \A c \in DOMAIN writes[k] : consumed[m] # writes[k][c]

C3_InvalidCapacity ==
  /\ m_maxSize # 0
  /\ fault = "none"

====
